---------------------------- MODULE Spec2Model ----------------------------
(***************************************************************************)
(* A model of the proof-of-stake data types of namada                      *)
(* (proof_of_stake/src/types.rs): epoch arithmetic, bonds and unbonds, the *)
(* ordering of weighted validators, the fixed-point conversions, and the   *)
(* epoched containers and validator sets those types are stored in; and  *)
(* of the hex form of 32-byte hashes (shared/src/types/hash.rs) and the   *)
(* RPC query paths (apps/src/lib/node/ledger/rpc.rs).                     *)
(*                                                                         *)
(* Machine integers keep their width.  A u64, an i64, an i128 or the       *)
(* 96-bit mantissa of a Decimal does not fit the integers of the model     *)
(* checker, so such a number is a sequence of decimal digits, most         *)
(* significant first, without leading zeros (zero is the empty sequence).  *)
(***************************************************************************)
EXTENDS Integers, Sequences, FiniteSets, TLC

VARIABLES
    overflow_checks,  \* build profile: does integer overflow panic (TRUE) or wrap
    fn_in,            \* the component exercised (kind) and the arguments of a call
    fn_out,           \* the last call: [op |-> name, ret |-> what it returned]
    cur_epoch,        \* the ledger's current epoch
    epoched,          \* an Epoched<V, OffsetPipelineLen> container
    ep_sched,         \* history: the value scheduled for every epoch
    deltas,           \* an EpochedDelta<V, OffsetUnbondingLen> container
    dl_hist,          \* history: every delta ever added, and the last operation
    candidates,       \* bonded stake of every Candidate validator
    max_slots,        \* PosParams.max_validator_slots
    vset              \* the ValidatorSet: [active, inactive]

vars == <<overflow_checks, fn_in, fn_out, cur_epoch, epoched, ep_sched,
          deltas, dl_hist, candidates, max_slots, vset>>

fnVars == <<fn_in, fn_out>>
epochedVars == <<cur_epoch, epoched, ep_sched>>
deltaVars == <<deltas, dl_hist>>
vsetVars == <<candidates, max_slots, vset>>

---------------------------------------------------------------------------
(* Unbounded naturals as digit sequences.                                  *)

Max(a, b) == IF a >= b THEN a ELSE b

Min(a, b) == IF a <= b THEN a ELSE b

RECURSIVE BigNorm(_)
BigNorm(d) ==
    IF d = <<>> THEN <<>>
    ELSE IF d[1] = 0 THEN BigNorm(Tail(d))
    ELSE d

RECURSIVE BigOf(_)
BigOf(n) == IF n = 0 THEN <<>> ELSE Append(BigOf(n \div 10), n % 10)

\* The digit of d at position i from the right (0 is the units digit).
DigitAt(d, i) == IF i < Len(d) THEN d[Len(d) - i] ELSE 0

RECURSIVE BigCmpFrom(_, _, _)
BigCmpFrom(a, b, i) ==
    IF i > Len(a) THEN 0
    ELSE IF a[i] < b[i] THEN -1
    ELSE IF a[i] > b[i] THEN 1
    ELSE BigCmpFrom(a, b, i + 1)

\* -1, 0 or 1 as a < b, a = b or a > b.
BigCmp(a, b) ==
    IF Len(a) < Len(b) THEN -1
    ELSE IF Len(a) > Len(b) THEN 1
    ELSE BigCmpFrom(a, b, 1)

BigLt(a, b) == BigCmp(a, b) = -1

BigLe(a, b) == BigCmp(a, b) # 1

RECURSIVE Carry(_, _, _)
\* The digits of the number whose column i (from the right, 1 the units)
\* holds cols[i]: the carries propagated to the left.
Carry(cols, i, carry) ==
    IF carry = 0 /\ i > Len(cols) THEN <<>>
    ELSE LET s == (IF i > Len(cols) THEN 0 ELSE cols[i]) + carry
         IN  Append(Carry(cols, i + 1, s \div 10), s % 10)

BigAdd(a, b) ==
    BigNorm(Carry([i \in 1..Max(Len(a), Len(b)) |->
                      DigitAt(a, i - 1) + DigitAt(b, i - 1)], 1, 0))

\* a - b for b <= a: a plus the nines' complement of b plus one, less the
\* leading one.
BigSub(a, b) ==
    BigNorm(Tail(Carry([i \in 1..Len(a) |->
                           DigitAt(a, i - 1) + 9 - DigitAt(b, i - 1)], 1, 1)))

RECURSIVE ColumnSum(_, _, _, _, _)
\* The sum of the digit products a_i * b_(k-i) for i in lo..hi.
ColumnSum(a, b, k, lo, hi) ==
    IF lo > hi THEN 0
    ELSE IF lo = hi THEN DigitAt(a, lo) * DigitAt(b, k - lo)
    ELSE LET mid == (lo + hi) \div 2
         IN  ColumnSum(a, b, k, lo, mid) + ColumnSum(a, b, k, mid + 1, hi)

\* a * b, by columns
BigMul(a, b) ==
    IF a = <<>> \/ b = <<>> THEN <<>>
    ELSE BigNorm(Carry([k \in 1..(Len(a) + Len(b)) |->
                           ColumnSum(a, b, k - 1, 0, Min(k - 1, Len(a) - 1))], 1, 0))

\* floor(a / 10^d)
BigDropDigits(a, d) == IF d >= Len(a) THEN <<>> ELSE SubSeq(a, 1, Len(a) - d)

\* a mod 10^d, as d digits (leading zeros kept)
BigLowDigits(a, d) == [i \in 1..d |-> DigitAt(a, d - i)]

---------------------------------------------------------------------------
(* Machine integers.                                                       *)

U64Max == <<1,8,4,4,6,7,4,4,0,7,3,7,0,9,5,5,1,6,1,5>>

U64Modulus == BigAdd(U64Max, <<1>>)

I64Max == <<9,2,2,3,3,7,2,0,3,6,8,5,4,7,7,5,8,0,7>>

Ok(v) == [tag |-> "Ok", val |-> v]

Abort == [tag |-> "Abort", val |-> <<>>]

None == [tag |-> "None", val |-> <<>>]

Some(v) == [tag |-> "Some", val |-> v]

\* u64 + u64: an overflow panics under overflow checks and wraps without.
U64Add(a, b, checks) ==
    LET s == BigAdd(a, b)
    IN  IF BigLe(s, U64Max) THEN Ok(s)
        ELSE IF checks THEN Abort
        ELSE Ok(BigSub(s, U64Modulus))

\* u64 - u64: an underflow panics under overflow checks and wraps without.
U64Sub(a, b, checks) ==
    IF BigLe(b, a) THEN Ok(BigSub(a, b))
    ELSE IF checks THEN Abort
    ELSE Ok(BigSub(U64Modulus, BigSub(b, a)))

---------------------------------------------------------------------------
(* Epoch: a u64 counter.                                                   *)

checked_sub_unguarded(self, rhs, checks) ==
    LET d == U64Sub(self, rhs, checks)
    IN  IF d.tag = "Abort" THEN Abort ELSE Some(d.val)

\* Epoch::checked_sub
checked_sub(self, rhs, checks) ==
    IF BigLt(self, rhs) THEN None
    ELSE LET d == U64Sub(self, rhs, checks)
         IN  IF d.tag = "Abort" THEN Abort ELSE Some(d.val)

\* Epoch::sub_or_default: Option::unwrap_or_default of checked_sub
sub_or_default(self, rhs, checks) ==
    LET r == checked_sub(self, rhs, checks)
    IN  IF r.tag = "Abort" THEN Abort
        ELSE IF r.tag = "Some" THEN Ok(r.val)
        ELSE Ok(<<>>)

\* The iterator of a Range<u64>: the epochs from next up to, not including, end.
RECURSIVE RangeCollect(_, _)
RangeCollect(next, end) ==
    IF BigLt(next, end)
    THEN <<next>> \o RangeCollect(BigAdd(next, <<1>>), end)
    ELSE <<>>

\* Epoch::iter_range: (start_ix..start_ix + len).map(Epoch::from)
iter_range(self, len, checks) ==
    LET end_ix == U64Add(self, len, checks)
    IN  IF end_ix.tag = "Abort" THEN Abort
        ELSE [tag |-> "Ok", val |-> [start |-> self, end |-> end_ix.val]]

\* impl Add<u64> for Epoch: Epoch(self.0 + rhs)
EpochAddU64(self, rhs, checks) ==
    LET sum == U64Add(self, rhs, checks)
    IN  IF sum.tag = "Abort" THEN Abort ELSE Ok(sum.val)

\* rhs as u64: a usize of 64 bits, zero-extended
UsizeAsU64(rhs) == BigNorm(rhs)

\* impl Add<usize> for Epoch: Epoch(self.0 + rhs as u64)
EpochAddUsize(self, rhs, checks) ==
    LET sum == U64Add(self, UsizeAsU64(rhs), checks)
    IN  IF sum.tag = "Abort" THEN Abort ELSE Ok(sum.val)

\* impl Sub<u64> for Epoch: Epoch(self.0 - rhs)
EpochSubU64(self, rhs, checks) ==
    LET diff == U64Sub(self, rhs, checks)
    IN  IF diff.tag = "Abort" THEN Abort ELSE Ok(diff.val)

\* impl Sub<Epoch> for Epoch: Epoch(self.0 - rhs.0)
EpochSubEpoch(self, rhs, checks) ==
    LET diff == U64Sub(self, rhs, checks)
    IN  IF diff.tag = "Abort" THEN Abort ELSE Ok(diff.val)

---------------------------------------------------------------------------
(* Bond and Unbond.  Token is a type parameter with + and -; the model     *)
(* takes the integers for it.  A HashMap is a function on its key set, and *)
(* iterating it takes the entries in an arbitrary order.                   *)

RECURSIVE FoldAmounts(_, _, _)
\* .iter().fold(Default::default(), |acc, (_, amount)| acc + *amount)
FoldAmounts(m, keys, acc) ==
    IF keys = {} THEN acc
    ELSE LET k == CHOOSE k \in keys : TRUE
         IN  FoldAmounts(m, keys \ {k}, acc + m[k])

\* Bond::sum
BondSum(bond) ==
    LET pos_deltas_sum == FoldAmounts(bond.pos_deltas, DOMAIN bond.pos_deltas, 0)
    IN  pos_deltas_sum - bond.neg_deltas

BondExtend(m, k, v) ==
    IF k \in DOMAIN m THEN [m EXCEPT ![k] = v] ELSE m @@ (k :> v)

\* The closure of Bond::add: add to the value of a key present, or insert.
BondAddOrInsert(m, k, v) ==
    IF k \in DOMAIN m THEN [m EXCEPT ![k] = @ + v] ELSE m @@ (k :> v)

RECURSIVE BondForEach(_, _, _)
\* iter.for_each over the entries of rhs.pos_deltas
BondForEach(m, rhs, keys) ==
    IF keys = {} THEN m
    ELSE LET k == CHOOSE k \in keys : TRUE
         IN  BondForEach(BondAddOrInsert(m, k, rhs[k]), rhs, keys \ {k})

\* impl Add for Bond
BondAdd(self, rhs) ==
    [pos_deltas |-> BondForEach(self.pos_deltas, rhs.pos_deltas,
                                DOMAIN rhs.pos_deltas),
     neg_deltas |-> self.neg_deltas + rhs.neg_deltas]

\* Unbond::sum
UnbondSum(unbond) == FoldAmounts(unbond.deltas, DOMAIN unbond.deltas, 0)

UnbondExtend(m, k, v) ==
    IF k \in DOMAIN m THEN [m EXCEPT ![k] = v] ELSE m @@ (k :> v)

\* The closure of Unbond::add: add to the value of a key present, or insert.
UnbondAddOrInsert(m, k, v) ==
    IF k \in DOMAIN m THEN [m EXCEPT ![k] = @ + v] ELSE m @@ (k :> v)

RECURSIVE UnbondForEach(_, _, _)
\* iter.for_each over the entries of rhs.deltas
UnbondForEach(m, rhs, keys) ==
    IF keys = {} THEN m
    ELSE LET k == CHOOSE k \in keys : TRUE
         IN  UnbondForEach(UnbondAddOrInsert(m, k, rhs[k]), rhs, keys \ {k})

\* impl Add for Unbond
UnbondAdd(self, rhs) ==
    [deltas |-> UnbondForEach(self.deltas, rhs.deltas, DOMAIN rhs.deltas)]

---------------------------------------------------------------------------
(* WeightedValidator and its derived ordering.                             *)

AddressFirstFields == <<"address", "bonded_stake">>

\* The fields of WeightedValidator in their declaration order.
WeightedValidatorFields == <<"bonded_stake", "address">>

RECURSIVE DeriveOrdCmp(_, _, _, _)
\* #[derive(PartialOrd, Ord)]: the fields compared top to bottom, the first
\* that differs deciding.  -1, 0 or 1 for Less, Equal or Greater.
DeriveOrdCmp(fields, x, y, i) ==
    IF i > Len(fields) THEN 0
    ELSE IF x[fields[i]] < y[fields[i]] THEN -1
    ELSE IF x[fields[i]] > y[fields[i]] THEN 1
    ELSE DeriveOrdCmp(fields, x, y, i + 1)

\* Ord::cmp of two WeightedValidators
WeightedValidatorCmp(x, y) == DeriveOrdCmp(WeightedValidatorFields, x, y, 1)

---------------------------------------------------------------------------
(* Decimal (rust_decimal): a sign, a 96-bit mantissa and a scale of 0..28  *)
(* decimal places, the value being mantissa / 10^scale.                    *)

\* 2^96 - 1, the largest mantissa
Max96 == <<7,9,2,2,8,1,6,2,5,1,4,2,6,4,3,3,7,5,9,3,5,4,3,9,5,0,3,3,5>>

DecZero == [neg |-> FALSE, mant |-> <<>>, scale |-> 0]

\* Decimal::from(u64): every u64 fits the mantissa
DecFromU64(n) == [neg |-> FALSE, mant |-> n, scale |-> 0]

\* Decimal::from(i128): from_i128(..).unwrap(), absent beyond 96 bits
DecFromI128(i) ==
    IF BigLt(Max96, i.mag) THEN Abort
    ELSE Ok([neg |-> i.neg /\ i.mag # <<>>, mant |-> i.mag, scale |-> 0])

\* The fewest digits to drop from p for the rest to fit the mantissa.
FewestDrop(p) ==
    IF BigLe(p, Max96) THEN 0
    ELSE IF BigLe(BigDropDigits(p, Len(p) - Len(Max96)), Max96)
    THEN Len(p) - Len(Max96)
    ELSE Len(p) - Len(Max96) + 1

\* p / 10^d rounded to the nearest integer, a tie to the even one.
RoundHalfEven(p, d) ==
    LET q == BigDropDigits(p, d)
        r == BigNorm(BigLowDigits(p, d))
        half == IF d = 0 THEN <<>> ELSE <<5>> \o [i \in 1..(d - 1) |-> 0]
        c == BigCmp(r, half)
        up == d > 0 /\ (c = 1 \/ (c = 0 /\ DigitAt(q, 0) % 2 = 1))
    IN  IF up THEN BigAdd(q, <<1>>) ELSE q

\* Decimal * Decimal: the exact product when its mantissa fits 96 bits;
\* otherwise low digits are dropped, rounding, until it fits, and the
\* multiplication panics when the scale has no digits left to drop.
DecMul(d1, d2) ==
    IF d1.mant = <<>> \/ d2.mant = <<>> THEN Ok(DecZero)
    ELSE LET p == BigMul(d1.mant, d2.mant)
             scale == d1.scale + d2.scale
             d0 == FewestDrop(p)
             d == IF BigLe(RoundHalfEven(p, d0), Max96) THEN d0 ELSE d0 + 1
         IN  IF d > scale THEN Abort
             ELSE Ok([neg |-> d1.neg # d2.neg,
                      mant |-> RoundHalfEven(p, d),
                      scale |-> scale - d])

\* Decimal::trunc: the integral part, the fraction dropped
DecTrunc(d) == BigDropDigits(d.mant, d.scale)

\* ToPrimitive::to_u64: absent for a negative value or one beyond u64
DecToU64(d) ==
    IF d.neg THEN None
    ELSE IF BigLt(U64Max, DecTrunc(d)) THEN None
    ELSE Some(DecTrunc(d))

\* ToPrimitive::to_i128: the integral part with the sign
DecToI128(d) ==
    Some([neg |-> d.neg /\ DecTrunc(d) # <<>>, mag |-> DecTrunc(d)])

\* decimal_mult_u64
decimal_mult_u64(dec, int) ==
    LET prod == DecMul(dec, DecFromU64(int))
    IN  IF prod.tag = "Abort" THEN Abort
        ELSE LET r == DecToU64(prod.val)
             IN  IF r.tag = "None" THEN Abort ELSE Ok(r.val)

\* decimal_mult_i128
decimal_mult_i128(dec, int) ==
    LET from == DecFromI128(int)
    IN  IF from.tag = "Abort" THEN Abort
        ELSE LET prod == DecMul(dec, from.val)
             IN  IF prod.tag = "Abort" THEN Abort
                 ELSE LET r == DecToI128(prod.val)
                      IN  IF r.tag = "None" THEN Abort ELSE Ok(r.val)

\* into_tm_voting_power: i64::try_from(prod).expect(..)
into_tm_voting_power(votes_per_token, tokens) ==
    LET prod == decimal_mult_u64(votes_per_token, tokens)
    IN  IF prod.tag = "Abort" THEN Abort
        ELSE IF BigLt(I64Max, prod.val) THEN Abort
        ELSE Ok(prod.val)

---------------------------------------------------------------------------
(* Bounds and inputs.                                                      *)

MaxLen == 3

EpochInputs ==
    {BigOf(n) : n \in 0..5} \cup {BigSub(U64Max, BigOf(n)) : n \in 0..2}

LenInputs == {BigOf(n) : n \in 0..MaxLen}

NoCall == [op |-> "none"]

IdleEpoched ==
    /\ cur_epoch = 0
    /\ epoched = <<>>
    /\ ep_sched = <<>>

IdleDeltas ==
    /\ deltas = <<>>
    /\ dl_hist = <<>>

IdleVset ==
    /\ candidates = <<>>
    /\ max_slots = 0
    /\ vset = <<>>

---------------------------------------------------------------------------
(* Epoch arithmetic, called on every pair of epochs.                       *)

InitEpoch ==
    /\ overflow_checks \in BOOLEAN
    /\ fn_in \in [kind : {"epoch"}, self : EpochInputs, rhs : EpochInputs,
                  len : LenInputs]
    /\ fn_out = NoCall
    /\ IdleEpoched /\ IdleDeltas /\ IdleVset

CallCheckedSub ==
    /\ fn_in.kind = "epoch"
    /\ fn_out' = [op |-> "checked_sub",
                  ret |-> checked_sub(fn_in.self, fn_in.rhs, overflow_checks)]
    /\ UNCHANGED <<overflow_checks, fn_in, epochedVars, deltaVars, vsetVars>>

CallSubOrDefault ==
    /\ fn_in.kind = "epoch"
    /\ fn_out' = [op |-> "sub_or_default",
                  ret |-> sub_or_default(fn_in.self, fn_in.rhs, overflow_checks)]
    /\ UNCHANGED <<overflow_checks, fn_in, epochedVars, deltaVars, vsetVars>>

\* iter_range, then the iterator and a clone of it each run to the end.
CallIterRange ==
    /\ fn_in.kind = "epoch"
    /\ LET it == iter_range(fn_in.self, fn_in.len, overflow_checks)
       IN  fn_out' =
             [op |-> "iter_range",
              ret |-> IF it.tag = "Abort" THEN Abort
                      ELSE [tag |-> "Ok",
                            val |-> RangeCollect(it.val.start, it.val.end),
                            again |-> RangeCollect(it.val.start, it.val.end)]]
    /\ UNCHANGED <<overflow_checks, fn_in, epochedVars, deltaVars, vsetVars>>

\* self + rhs with a u64 offset
CallAddU64 ==
    /\ fn_in.kind = "epoch"
    /\ fn_out' = [op |-> "add_u64",
                  ret |-> EpochAddU64(fn_in.self, fn_in.rhs, overflow_checks)]
    /\ UNCHANGED <<overflow_checks, fn_in, epochedVars, deltaVars, vsetVars>>

\* self + rhs with a usize offset
CallAddUsize ==
    /\ fn_in.kind = "epoch"
    /\ fn_out' = [op |-> "add_usize",
                  ret |-> EpochAddUsize(fn_in.self, fn_in.rhs, overflow_checks)]
    /\ UNCHANGED <<overflow_checks, fn_in, epochedVars, deltaVars, vsetVars>>

\* self - rhs with a u64 offset
CallSubU64 ==
    /\ fn_in.kind = "epoch"
    /\ fn_out' = [op |-> "sub_u64",
                  ret |-> EpochSubU64(fn_in.self, fn_in.rhs, overflow_checks)]
    /\ UNCHANGED <<overflow_checks, fn_in, epochedVars, deltaVars, vsetVars>>

\* self - rhs with an epoch
CallSubEpoch ==
    /\ fn_in.kind = "epoch"
    /\ fn_out' = [op |-> "sub_epoch",
                  ret |-> EpochSubEpoch(fn_in.self, fn_in.rhs, overflow_checks)]
    /\ UNCHANGED <<overflow_checks, fn_in, epochedVars, deltaVars, vsetVars>>

NextEpoch ==
    \/ CallCheckedSub \/ CallSubOrDefault \/ CallIterRange
    \/ CallAddU64 \/ CallAddUsize \/ CallSubU64 \/ CallSubEpoch

SpecEpoch == InitEpoch /\ [][NextEpoch]_vars

---------------------------------------------------------------------------
(* C7: checked_sub is absent exactly when rhs > self and is otherwise the  *)
(* epoch self - rhs; sub_or_default is self - rhs when rhs <= self and     *)
(* Epoch(0) otherwise; neither aborts.                                     *)
C7_CheckedSub ==
    /\ fn_out.op = "checked_sub" =>
         /\ fn_out.ret.tag # "Abort"
         /\ (fn_out.ret.tag = "None") <=> BigLt(fn_in.self, fn_in.rhs)
         /\ fn_out.ret.tag = "Some" =>
              BigAdd(fn_out.ret.val, fn_in.rhs) = fn_in.self
    /\ fn_out.op = "sub_or_default" =>
         /\ fn_out.ret.tag = "Ok"
         /\ BigLe(fn_in.rhs, fn_in.self) =>
              BigAdd(fn_out.ret.val, fn_in.rhs) = fn_in.self
         /\ BigLt(fn_in.self, fn_in.rhs) => fn_out.ret.val = <<>>

C7_Witness ==
    /\ fn_out.op = "sub_or_default"
    /\ fn_in.self = BigOf(3)
    /\ fn_in.rhs = BigOf(5)
    /\ fn_out.ret = Ok(<<>>)

\* The epochs s, s+1, ..., s+n-1.
ConsecutiveEpochs(s, n) == [i \in 1..n |-> BigAdd(s, BigOf(i - 1))]

RECURSIVE SmallOf(_)
SmallOf(d) == IF d = <<>> THEN 0 ELSE 10 * SmallOf(SubSeq(d, 1, Len(d) - 1)) + d[Len(d)]

(* C8: s.iter_range(n) yields exactly the n consecutive epochs s, ...,     *)
(* s+n-1, and a fresh copy of the sequence yields them again.  Stated for  *)
(* the calls whose n epochs all exist (s + n - 1 <= u64::MAX, or n = 0).   *)
C8_IterRangeYieldsAll ==
    (/\ fn_out.op = "iter_range"
     /\ BigLe(BigAdd(fn_in.self, fn_in.len), U64Modulus))
    => /\ fn_out.ret.tag = "Ok"
       /\ fn_out.ret.val = ConsecutiveEpochs(fn_in.self, SmallOf(fn_in.len))
       /\ fn_out.ret.again = fn_out.ret.val

---------------------------------------------------------------------------
(* Bond and Unbond merges, called on every pair of bonds and of unbonds.   *)

MaxBondEpoch == 1

MaxAmount == 2

BondEpochs == 0..MaxBondEpoch

\* every map from some of the keys to an amount
MapsOver(keys, amounts) ==
    UNION {[ks -> amounts] : ks \in SUBSET keys}

BondInputs ==
    [pos_deltas : MapsOver(BondEpochs, 1..MaxAmount),
     neg_deltas : 0..(MaxAmount + 1)]

\* keys (bond epoch, unbond epoch), the unbonding after the bonding
UnbondKeys == {<<b, b + 1>> : b \in BondEpochs} \cup {<<0, MaxBondEpoch + 1>>}

UnbondInputs == [deltas : MapsOver(UnbondKeys, 1..MaxAmount)]

InitBond ==
    /\ overflow_checks = TRUE
    /\ fn_in \in [kind : {"bond"}, a : BondInputs, b : BondInputs]
                 \cup [kind : {"unbond"}, a : UnbondInputs, b : UnbondInputs]
    /\ fn_out = NoCall
    /\ IdleEpoched /\ IdleDeltas /\ IdleVset

CallBondAdd ==
    /\ fn_in.kind = "bond"
    /\ fn_out' = [op |-> "bond_add", ret |-> BondAdd(fn_in.a, fn_in.b)]
    /\ UNCHANGED <<overflow_checks, fn_in, epochedVars, deltaVars, vsetVars>>

CallUnbondAdd ==
    /\ fn_in.kind = "unbond"
    /\ fn_out' = [op |-> "unbond_add", ret |-> UnbondAdd(fn_in.a, fn_in.b)]
    /\ UNCHANGED <<overflow_checks, fn_in, epochedVars, deltaVars, vsetVars>>

NextBond == CallBondAdd \/ CallUnbondAdd

SpecBond == InitBond /\ [][NextBond]_vars

(* C3: for all Bonds a and b, (a + b).sum() == a.sum() + b.sum().          *)
C3_BondSumAdditive ==
    fn_out.op = "bond_add" =>
        BondSum(fn_out.ret) = BondSum(fn_in.a) + BondSum(fn_in.b)

\* a merge of two bonds that share an epoch key and both hold neg_deltas
C3_Witness ==
    /\ fn_out.op = "bond_add"
    /\ DOMAIN fn_in.a.pos_deltas \cap DOMAIN fn_in.b.pos_deltas # {}
    /\ DOMAIN fn_in.a.pos_deltas # DOMAIN fn_in.b.pos_deltas
    /\ fn_in.a.neg_deltas > 0 /\ fn_in.b.neg_deltas > 0
    /\ BondSum(fn_in.a) < 0
    /\ BondSum(fn_out.ret) = BondSum(fn_in.a) + BondSum(fn_in.b)

(* C4: for all Unbonds a and b, (a + b).sum() == a.sum() + b.sum(): a key  *)
(* present on both sides holds the sum of both amounts.                    *)
C4_UnbondSumAdditive ==
    fn_out.op = "unbond_add" =>
        /\ UnbondSum(fn_out.ret) = UnbondSum(fn_in.a) + UnbondSum(fn_in.b)
        /\ \A k \in DOMAIN fn_in.a.deltas \cap DOMAIN fn_in.b.deltas :
               fn_out.ret.deltas[k] = fn_in.a.deltas[k] + fn_in.b.deltas[k]

\* a merge of two unbonds that share one key and each hold one of their own
C4_Witness ==
    /\ fn_out.op = "unbond_add"
    /\ DOMAIN fn_in.a.deltas \cap DOMAIN fn_in.b.deltas # {}
    /\ DOMAIN fn_in.a.deltas \ DOMAIN fn_in.b.deltas # {}
    /\ DOMAIN fn_in.b.deltas \ DOMAIN fn_in.a.deltas # {}
    /\ UnbondSum(fn_out.ret) = UnbondSum(fn_in.a) + UnbondSum(fn_in.b)

---------------------------------------------------------------------------
(* The ordering of WeightedValidator, called on every pair of validators.  *)

NumAddresses == 3

MaxStake == 3

Addresses == 1..NumAddresses

WeightedValidators == [bonded_stake : 0..MaxStake, address : Addresses]

InitOrd ==
    /\ overflow_checks = TRUE
    /\ fn_in \in [kind : {"ord"}, x : WeightedValidators, y : WeightedValidators]
    /\ fn_out = NoCall
    /\ IdleEpoched /\ IdleDeltas /\ IdleVset

CallCmp ==
    /\ fn_in.kind = "ord"
    /\ fn_out' = [op |-> "cmp", ret |-> WeightedValidatorCmp(fn_in.x, fn_in.y)]
    /\ UNCHANGED <<overflow_checks, fn_in, epochedVars, deltaVars, vsetVars>>

NextOrd == CallCmp

SpecOrd == InitOrd /\ [][NextOrd]_vars

(* C5: x < y iff x.bonded_stake < y.bonded_stake, or the stakes are equal  *)
(* and x.address < y.address; the address never decides the order of two   *)
(* validators with different stakes.                                       *)
C5_StakeFirst ==
    fn_out.op = "cmp" =>
        /\ (fn_out.ret = -1) <=>
              \/ fn_in.x.bonded_stake < fn_in.y.bonded_stake
              \/ /\ fn_in.x.bonded_stake = fn_in.y.bonded_stake
                 /\ fn_in.x.address < fn_in.y.address
        /\ fn_in.x.bonded_stake > fn_in.y.bonded_stake => fn_out.ret = 1

\* the stakes and the addresses order the two validators in opposite ways
C5_Witness ==
    /\ fn_out.op = "cmp"
    /\ fn_in.x.bonded_stake < fn_in.y.bonded_stake
    /\ fn_in.x.address > fn_in.y.address
    /\ fn_out.ret = -1

---------------------------------------------------------------------------
(* The fixed-point conversions, called on rates and amounts that include   *)
(* the ends of the integer ranges and rates of 28 decimal places.          *)

Digits(k, d) == [i \in 1..k |-> d]

Rate(mant, scale) == [neg |-> FALSE, mant |-> mant, scale |-> scale]

Negated(dec) == [dec EXCEPT !.neg = TRUE]

\* 0, 0.5, 1, 1.5, 0.001, 0.333..., 0.999..., 0.7037037037037037037037037037
RateInputs ==
    {Rate(<<>>, 0), Rate(<<5>>, 1), Rate(<<1>>, 0), Rate(<<1, 5>>, 1),
     Rate(<<1>>, 3), Rate(Digits(28, 3), 28), Rate(Digits(28, 9), 28),
     Rate(<<7>> \o [i \in 1..27 |-> <<0, 3, 7>>[((i - 1) % 3) + 1]], 28)}

AmountInputs ==
    {BigOf(n) : n \in {0, 1, 2, 3, 9, 10, 27}}
    \cup {I64Max, BigAdd(I64Max, <<1>>), BigSub(U64Max, <<1>>), U64Max}

Int128(neg, mag) == [neg |-> neg, mag |-> mag]

Int128Inputs ==
    {Int128(FALSE, BigOf(n)) : n \in {0, 1, 3, 9, 10, 27}}
    \cup {Int128(TRUE, BigOf(n)) : n \in {1, 3, 9, 10, 27}}
    \cup {Int128(FALSE, Max96), Int128(TRUE, BigAdd(Max96, <<1>>))}

InitDec ==
    /\ overflow_checks = TRUE
    /\ fn_in \in [kind : {"u64"}, dec : RateInputs, int : AmountInputs]
                 \cup [kind : {"i128"},
                       dec : RateInputs \cup {Negated(Rate(<<5>>, 1))},
                       int : Int128Inputs]
    /\ fn_out = NoCall
    /\ IdleEpoched /\ IdleDeltas /\ IdleVset

CallDecimalMultU64 ==
    /\ fn_in.kind = "u64"
    /\ fn_out' = [op |-> "decimal_mult_u64",
                  ret |-> decimal_mult_u64(fn_in.dec, fn_in.int)]
    /\ UNCHANGED <<overflow_checks, fn_in, epochedVars, deltaVars, vsetVars>>

CallDecimalMultI128 ==
    /\ fn_in.kind = "i128"
    /\ fn_out' = [op |-> "decimal_mult_i128",
                  ret |-> decimal_mult_i128(fn_in.dec, fn_in.int)]
    /\ UNCHANGED <<overflow_checks, fn_in, epochedVars, deltaVars, vsetVars>>

CallIntoTmVotingPower ==
    /\ fn_in.kind = "u64"
    /\ fn_out' = [op |-> "into_tm_voting_power",
                  ret |-> into_tm_voting_power(fn_in.dec, fn_in.int)]
    /\ UNCHANGED <<overflow_checks, fn_in, epochedVars, deltaVars, vsetVars>>

NextDec == CallDecimalMultU64 \/ CallDecimalMultI128 \/ CallIntoTmVotingPower

SpecDec == InitDec /\ [][NextDec]_vars

\* The magnitude of the exact product dec * int with its fraction dropped.
ExactTruncated(dec, mag) == BigDropDigits(BigMul(dec.mant, mag), dec.scale)

(* C9: into_tm_voting_power returns the truncated product votes_per_token  *)
(* * tokens whenever that is within 0 .. 2^63-1 and aborts whenever it     *)
(* exceeds 2^63-1; it never returns a wrapped or negative voting power.    *)
C9_VotingPower ==
    fn_out.op = "into_tm_voting_power" =>
        LET exact == ExactTruncated(fn_in.dec, fn_in.int)
        IN  /\ BigLe(exact, I64Max) => fn_out.ret = Ok(exact)
            /\ BigLt(I64Max, exact) => fn_out.ret = Abort

\* What does hold of the conversion: a returned voting power is in 0 .. 2^63-1.
VotingPowerInRange ==
    (fn_out.op = "into_tm_voting_power" /\ fn_out.ret.tag = "Ok")
        => BigLe(fn_out.ret.val, I64Max)

(* C10: decimal_mult returns the exact product rate * amount truncated     *)
(* toward zero, never rounded to nearest or up; the signed variant         *)
(* truncates a negative product toward zero.                               *)
C10_ExactTruncation ==
    /\ (fn_out.op = "decimal_mult_u64" /\ fn_out.ret.tag = "Ok") =>
          fn_out.ret.val = ExactTruncated(fn_in.dec, fn_in.int)
    /\ (fn_out.op = "decimal_mult_i128" /\ fn_out.ret.tag = "Ok") =>
          fn_out.ret.val.mag = ExactTruncated(fn_in.dec, fn_in.int.mag)

\* The products whose mantissa fits 96 bits are exact, and truncated.
ExactWhenProductFits ==
    (/\ fn_out.op = "decimal_mult_u64"
     /\ BigLe(BigMul(fn_in.dec.mant, fn_in.int), Max96))
    => \/ fn_out.ret = Ok(ExactTruncated(fn_in.dec, fn_in.int))
       \/ /\ fn_out.ret = Abort
          /\ BigLt(U64Max, ExactTruncated(fn_in.dec, fn_in.int))

---------------------------------------------------------------------------
(* Epoched<V, OffsetPipelineLen>: a value whose updates take effect        *)
(* pipeline_len epochs after they are set.  The container is a window of   *)
(* offset + 1 slots, slot i holding the value that takes effect at epoch   *)
(* last_update + i, rotated as the epoch advances.                         *)

PipelineLen == 2

UnbondingLen == 3

MaxEpoch == 6

NumValues == 2

NoValue == 0

Values == 1..NumValues

ValidatorStatesOffsetUnbonding == UnbondingLen

\* The offset of ValidatorStates and ValidatorConsensusKeys: OffsetPipelineLen
ValidatorStatesOffset == PipelineLen

EmptyEpoched(epoch) ==
    [last_update |-> epoch,
     data |-> [i \in 0..ValidatorStatesOffset |-> NoValue]]

RECURSIVE LatestFrom(_, _)
\* the value of the highest slot at or below index that holds one
LatestFrom(data, index) ==
    IF index < 0 THEN NoValue
    ELSE IF data[index] # NoValue THEN data[index]
    ELSE LatestFrom(data, index - 1)

\* get(epoch): the latest scheduled value whose effective epoch is at or
\* before epoch, absent when there is none
EpochedGet(c, epoch) ==
    IF epoch < c.last_update THEN NoValue
    ELSE LatestFrom(c.data, Min(epoch - c.last_update, ValidatorStatesOffset))

\* The window moved to current_epoch: the slots that fell behind are pruned,
\* the latest of them carried into slot 0 unless it already holds a value.
EpochedUpdateData(c, current_epoch) ==
    LET shift == current_epoch - c.last_update
        mid == Min(shift, ValidatorStatesOffset + 1)
        latest == LatestFrom(c.data, mid - 1)
        moved == [i \in 0..ValidatorStatesOffset |->
                     IF i + mid <= ValidatorStatesOffset
                     THEN c.data[i + mid] ELSE NoValue]
    IN  IF shift = 0 THEN c
        ELSE [last_update |-> current_epoch,
              data |-> IF moved[0] = NoValue
                       THEN [moved EXCEPT ![0] = latest] ELSE moved]

\* set(value, current_epoch): value takes effect at current_epoch + offset
EpochedSet(c, value, current_epoch) ==
    LET u == EpochedUpdateData(c, current_epoch)
    IN  [u EXCEPT !.data[ValidatorStatesOffset] = value]

\* the last epoch a query is made for
Horizon == MaxEpoch + UnbondingLen + 1

InitEpoched ==
    /\ overflow_checks = TRUE
    /\ fn_in = [kind |-> "epoched"]
    /\ fn_out = NoCall
    /\ cur_epoch = 0
    /\ epoched = EmptyEpoched(0)
    /\ ep_sched = [expect |-> [e \in 0..Horizon |-> NoValue],
                   before |-> EmptyEpoched(0),
                   last |-> [op |-> "init", value |-> NoValue, epoch |-> 0]]
    /\ IdleDeltas /\ IdleVset

\* set(v, e1) at the current epoch e1
SetValue(v) ==
    /\ fn_in.kind = "epoched"
    /\ epoched' = EpochedSet(epoched, v, cur_epoch)
    /\ ep_sched' = [expect |-> [e \in 0..Horizon |->
                                  IF e >= cur_epoch + PipelineLen
                                  THEN v ELSE ep_sched.expect[e]],
                    before |-> epoched,
                    last |-> [op |-> "set", value |-> v, epoch |-> cur_epoch]]
    /\ UNCHANGED <<overflow_checks, fnVars, cur_epoch, deltaVars, vsetVars>>

\* the epoch advances, and the window with it
AdvanceEpoched ==
    /\ fn_in.kind = "epoched"
    /\ cur_epoch < MaxEpoch
    /\ cur_epoch' = cur_epoch + 1
    /\ epoched' = EpochedUpdateData(epoched, cur_epoch + 1)
    /\ ep_sched' = [ep_sched EXCEPT
                      !.before = epoched,
                      !.last = [op |-> "advance", value |-> NoValue,
                                epoch |-> cur_epoch + 1]]
    /\ UNCHANGED <<overflow_checks, fnVars, deltaVars, vsetVars>>

NextEpoched == (\E v \in Values : SetValue(v)) \/ AdvanceEpoched

SpecEpoched == InitEpoched /\ [][NextEpoched]_vars

(* C1: after set(v, e1) under pipeline length p, get(e) for every epoch    *)
(* e < e1+p returns what it returned before the set (the prior value, or   *)
(* absent), and get(e) for every e >= e1+p returns v, until a later set    *)
(* whose effective epoch is <= e supersedes it: at every epoch from the    *)
(* current one on, get returns the most recently set value in effect.      *)
C1_SetTakesEffectAfterPipeline ==
    /\ ep_sched.last.op = "set" =>
         \A e \in 0..Horizon :
            /\ e < ep_sched.last.epoch + PipelineLen =>
                  EpochedGet(epoched, e) = EpochedGet(ep_sched.before, e)
            /\ e >= ep_sched.last.epoch + PipelineLen =>
                  EpochedGet(epoched, e) = ep_sched.last.value
    /\ \A e \in cur_epoch..Horizon :
          EpochedGet(epoched, e) = ep_sched.expect[e]

\* a value was set over an earlier one that is in effect, and is pending
C1_Witness ==
    /\ ep_sched.last.op = "set"
    /\ EpochedGet(epoched, cur_epoch) # NoValue
    /\ EpochedGet(epoched, cur_epoch + PipelineLen - 1)
          = EpochedGet(epoched, cur_epoch)
    /\ EpochedGet(epoched, cur_epoch + PipelineLen) = ep_sched.last.value
    /\ ep_sched.last.value # EpochedGet(epoched, cur_epoch)

---------------------------------------------------------------------------
(* EpochedDelta<V, OffsetUnbondingLen>: deltas keyed by epoch, summed up   *)
(* to an epoch.  The deltas older than the unbonding window are collapsed  *)
(* into one carried total.                                                 *)

MaxAdds == 3

DeltaInputs == {-1, 2}

\* The offset of ValidatorDeltas, Bonds, Unbonds and TotalDeltas:
\* OffsetUnbondingLen
DeltasOffset == UnbondingLen

EmptyDeltas == [carried |-> 0, entries |-> <<>>]

\* add_at(delta, epoch): accumulate on the entry of epoch, or insert it
DeltaAddAt(c, delta, epoch) ==
    [c EXCEPT !.entries =
        IF epoch \in DOMAIN c.entries
        THEN [c.entries EXCEPT ![epoch] = @ + delta]
        ELSE c.entries @@ (epoch :> delta)]

\* sum_until(epoch): the carried total and every delta at or before epoch
DeltaSumUntil(c, epoch) ==
    FoldAmounts(c.entries, {k \in DOMAIN c.entries : k <= epoch}, c.carried)

\* The entries older than current_epoch - offset dropped, their total lost.
DeltaCollapseDropping(c, current_epoch) ==
    LET old == {k \in DOMAIN c.entries : k < current_epoch - DeltasOffset}
    IN  [carried |-> c.carried,
         entries |-> [k \in DOMAIN c.entries \ old |-> c.entries[k]]]

\* The entries older than current_epoch - offset folded into the carried
\* total.
DeltaCollapse(c, current_epoch) ==
    LET old == {k \in DOMAIN c.entries : k < current_epoch - DeltasOffset}
    IN  [carried |-> FoldAmounts(c.entries, old, c.carried),
         entries |-> [k \in DOMAIN c.entries \ old |-> c.entries[k]]]

\* the epochs of the window, which stay queryable
Queryable(current_epoch) == Max(0, current_epoch - UnbondingLen)..Horizon

InitDeltas ==
    /\ overflow_checks = TRUE
    /\ fn_in = [kind |-> "deltas"]
    /\ fn_out = NoCall
    /\ cur_epoch = 0
    /\ epoched = <<>>
    /\ ep_sched = <<>>
    /\ deltas = EmptyDeltas
    /\ dl_hist = [all |-> [e \in 0..Horizon |-> 0],
                  before |-> EmptyDeltas,
                  last |-> "init",
                  adds |-> 0]
    /\ IdleVset

\* add_at(delta, epoch) for an epoch of the window
AddAt(delta, epoch) ==
    /\ fn_in.kind = "deltas"
    /\ dl_hist.adds < MaxAdds
    /\ deltas' = DeltaAddAt(deltas, delta, epoch)
    /\ dl_hist' = [all |-> [dl_hist.all EXCEPT ![epoch] = @ + delta],
                   before |-> deltas,
                   last |-> "add_at",
                   adds |-> dl_hist.adds + 1]
    /\ UNCHANGED <<overflow_checks, fnVars, epochedVars, vsetVars>>

\* the epoch advances, and the entries that left the window collapse
AdvanceDeltas ==
    /\ fn_in.kind = "deltas"
    /\ cur_epoch < MaxEpoch
    /\ cur_epoch' = cur_epoch + 1
    /\ deltas' = DeltaCollapse(deltas, cur_epoch + 1)
    /\ dl_hist' = [dl_hist EXCEPT !.before = deltas, !.last = "advance"]
    /\ UNCHANGED <<overflow_checks, fnVars, epoched, ep_sched, vsetVars>>

NextDeltas ==
    \/ \E delta \in DeltaInputs :
         \E epoch \in Max(0, cur_epoch - UnbondingLen)..(cur_epoch + UnbondingLen) :
            AddAt(delta, epoch)
    \/ AdvanceDeltas

SpecDeltas == InitDeltas /\ [][NextDeltas]_vars

RECURSIVE SumTo(_, _)
\* the sum of f over 0..e
SumTo(f, e) == IF e < 0 THEN 0 ELSE f[e] + SumTo(f, e - 1)

(* C6: collapsing the entries older than (current epoch - u) into one      *)
(* carried-forward total leaves sum_until(e) unchanged for every           *)
(* still-queryable epoch e, after any sequence of add_at calls and epoch   *)
(* advances: sum_until(e) stays the sum of every delta added at or before  *)
(* e.                                                                      *)
C6_CollapseKeepsSums ==
    /\ dl_hist.last = "advance" =>
          \A e \in Queryable(cur_epoch) :
             DeltaSumUntil(deltas, e) = DeltaSumUntil(dl_hist.before, e)
    /\ \A e \in Queryable(cur_epoch) :
          DeltaSumUntil(deltas, e) = SumTo(dl_hist.all, e)

\* an advance collapsed an entry into a carried total that already held
\* one, and entries of the window remain
C6_Witness ==
    /\ dl_hist.last = "advance"
    /\ dl_hist.before.carried # 0
    /\ \E k \in DOMAIN dl_hist.before.entries : k \notin DOMAIN deltas.entries
    /\ deltas.carried # dl_hist.before.carried
    /\ DOMAIN deltas.entries # {}

---------------------------------------------------------------------------
(* ValidatorSet: the Candidate validators ranked by the ordering of        *)
(* WeightedValidator, the top max_validator_slots of them active and the   *)
(* rest inactive.  The set is recomputed on every change of a stake, of    *)
(* the candidates or of the parameter.                                     *)

MaxSlots == 2

\* the Candidate validators with their bonded stake
Weighted(cands) ==
    {[bonded_stake |-> cands[a], address |-> a] : a \in DOMAIN cands}

\* the validators of all that the ordering puts above v
Above(v, all) == {w \in all : WeightedValidatorCmp(w, v) = 1}

\* The recomputation: the slots go to the validators greatest in the
\* ordering.
RecomputeValidatorSet(cands, slots) ==
    LET all == Weighted(cands)
        active == {v \in all : Cardinality(Above(v, all)) < slots}
    IN  [active |-> active, inactive |-> all \ active]

InitVset ==
    /\ overflow_checks = TRUE
    /\ fn_in = [kind |-> "vset"]
    /\ fn_out = NoCall
    /\ IdleEpoched /\ IdleDeltas
    /\ candidates = <<>>
    /\ max_slots \in 0..MaxSlots
    /\ vset = RecomputeValidatorSet(<<>>, max_slots)

\* a Pending validator becomes a Candidate
BecomeCandidate(a, stake) ==
    /\ fn_in.kind = "vset"
    /\ a \notin DOMAIN candidates
    /\ candidates' = candidates @@ (a :> stake)
    /\ vset' = RecomputeValidatorSet(candidates', max_slots)
    /\ UNCHANGED <<overflow_checks, fnVars, epochedVars, deltaVars, max_slots>>

\* a bond or an unbond changes the stake of a Candidate
ChangeStake(a, stake) ==
    /\ fn_in.kind = "vset"
    /\ a \in DOMAIN candidates
    /\ candidates[a] # stake
    /\ candidates' = [candidates EXCEPT ![a] = stake]
    /\ vset' = RecomputeValidatorSet(candidates', max_slots)
    /\ UNCHANGED <<overflow_checks, fnVars, epochedVars, deltaVars, max_slots>>

\* governance changes max_validator_slots
ChangeMaxSlots(slots) ==
    /\ fn_in.kind = "vset"
    /\ slots # max_slots
    /\ max_slots' = slots
    /\ vset' = RecomputeValidatorSet(candidates, slots)
    /\ UNCHANGED <<overflow_checks, fnVars, epochedVars, deltaVars, candidates>>

NextVset ==
    \/ \E a \in Addresses, stake \in 1..MaxStake : BecomeCandidate(a, stake)
    \/ \E a \in Addresses, stake \in 1..MaxStake : ChangeStake(a, stake)
    \/ \E slots \in 0..MaxSlots : ChangeMaxSlots(slots)

SpecVset == InitVset /\ [][NextVset]_vars

(* C2: after every recomputation the active set has at most                *)
(* max_validator_slots members, no validator is in both sets, and whenever *)
(* both are non-empty the smallest bonded_stake in active is >= the        *)
(* largest bonded_stake in inactive.                                       *)
C2_ValidatorSetInvariant ==
    /\ Cardinality(vset.active) <= max_slots
    /\ {v.address : v \in vset.active} \cap {v.address : v \in vset.inactive} = {}
    /\ vset.active \cup vset.inactive = Weighted(candidates)
    /\ \A v \in vset.active : \A w \in vset.inactive :
          v.bonded_stake >= w.bonded_stake

\* the slots are full, and a validator is inactive whose address is above
\* that of an active validator of greater stake
C2_Witness ==
    /\ max_slots > 0
    /\ Cardinality(vset.active) = max_slots
    /\ \E v \in vset.active : \E w \in vset.inactive :
          /\ v.bonded_stake > w.bonded_stake
          /\ v.address < w.address
    /\ \E v \in vset.active : \E w \in vset.inactive :
          v.bonded_stake = w.bonded_stake

---------------------------------------------------------------------------
\* what epoch arithmetic without wraparound returns: the exact result when
\* it is an epoch, and an abort when it is not
Unwrapped(op, self, rhs) ==
    IF op \in {"add_u64", "add_usize"}
    THEN IF BigLe(BigAdd(self, rhs), U64Max) THEN Ok(BigAdd(self, rhs))
         ELSE Abort
    ELSE IF BigLe(rhs, self) THEN Ok(BigSub(self, rhs))
         ELSE Abort

(* C13: epoch arithmetic never wraps around the 64-bit counter: an         *)
(* addition whose result would exceed 2^64-1 and a subtraction whose       *)
(* result would be below 0 abort instead of returning a wrapped epoch.     *)
C13_NeverWraps ==
    fn_out.op \in {"add_u64", "add_usize", "sub_u64", "sub_epoch"} =>
        fn_out.ret = Unwrapped(fn_out.op, fn_in.self, fn_in.rhs)

\* With overflow checks compiled in, the arithmetic aborts instead of
\* wrapping.
AbortsUnderOverflowChecks ==
    (/\ overflow_checks
     /\ fn_out.op \in {"add_u64", "add_usize", "sub_u64", "sub_epoch"}) =>
        fn_out.ret = Unwrapped(fn_out.op, fn_in.self, fn_in.rhs)

---------------------------------------------------------------------------
(* 32-byte hashes (shared/src/types/hash.rs): formatting as hex and        *)
(* parsing back.  A string is a sequence of code points, a hash            *)
(* a sequence of HASH_LENGTH bytes.                                        *)

HASH_LENGTH == 32

\* A character is its Unicode code point, a string a sequence of characters.
\* The printable ASCII characters in the order of their codes: from the
\* space (code 32) to the underscore (95), and from a (97) to the tilde (126).
AsciiChars ==
    <<" ", "!", "\"", "#", "$", "%", "&", "'", "(", ")", "*", "+",
      ",", "-", ".", "/", "0", "1", "2", "3", "4", "5", "6", "7",
      "8", "9", ":", ";", "<", "=", ">", "?", "@", "A", "B", "C",
      "D", "E", "F", "G", "H", "I", "J", "K", "L", "M", "N", "O",
      "P", "Q", "R", "S", "T", "U", "V", "W", "X", "Y", "Z", "[",
      "\\", "]", "^", "_">>

AsciiLowerChars ==
    <<"a", "b", "c", "d", "e", "f", "g", "h", "i", "j", "k", "l", "m",
      "n", "o", "p", "q", "r", "s", "t", "u", "v", "w", "x", "y", "z",
      "{", "|", "}", "~">>

\* the code point of a printable ASCII character
Code(c) ==
    IF \E i \in 1..Len(AsciiChars) : AsciiChars[i] = c
    THEN 31 + (CHOOSE i \in 1..Len(AsciiChars) : AsciiChars[i] = c)
    ELSE 96 + (CHOOSE i \in 1..Len(AsciiLowerChars) : AsciiLowerChars[i] = c)

\* the string of the characters written out one by one
Str(chars) == [i \in 1..Len(chars) |-> Code(chars[i])]

Err(e) == [tag |-> "Err", val |-> e]

\* the digits of the format {:X}
UpperHexDigits ==
    Str(<<"0", "1", "2", "3", "4", "5", "6", "7", "8", "9",
      "A", "B", "C", "D", "E", "F">>)

LowerHexDigits ==
    Str(<<"0", "1", "2", "3", "4", "5", "6", "7", "8", "9",
      "a", "b", "c", "d", "e", "f">>)

\* {:X}: a byte below 16 takes one character only
FmtByteUnpadded(byte) ==
    IF byte < 16 THEN <<UpperHexDigits[byte + 1]>>
    ELSE <<UpperHexDigits[(byte \div 16) + 1], UpperHexDigits[(byte % 16) + 1]>>

\* write!(f, "{:02X}", byte)
FmtByte(byte) ==
    <<UpperHexDigits[(byte \div 16) + 1], UpperHexDigits[(byte % 16) + 1]>>

RECURSIVE HashFmtFrom(_, _)
\* for byte in &self.0 { write!(...) }, from the i-th byte on
HashFmtFrom(bytes, i) ==
    IF i > Len(bytes) THEN <<>>
    ELSE FmtByte(bytes[i]) \o HashFmtFrom(bytes, i + 1)

\* Display for Hash
HashFmt(hash) == HashFmtFrom(hash, 1)

\* char::encode_utf8: the UTF-8 bytes of the character of code point c, one
\* byte up to U+007F, two up to U+07FF, three up to U+FFFF, four above
Utf8Char(c) ==
    IF c < 128 THEN <<c>>
    ELSE IF c < 2048 THEN <<192 + (c \div 64), 128 + (c % 64)>>
    ELSE IF c < 65536
    THEN <<224 + (c \div 4096), 128 + ((c \div 64) % 64), 128 + (c % 64)>>
    ELSE <<240 + (c \div 262144), 128 + ((c \div 4096) % 64),
           128 + ((c \div 64) % 64), 128 + (c % 64)>>

RECURSIVE AsBytesFrom(_, _)
AsBytesFrom(string, i) ==
    IF i > Len(string) THEN <<>>
    ELSE Utf8Char(string[i]) \o AsBytesFrom(string, i + 1)

\* str::as_bytes (AsRef<[u8]> for str)
AsBytes(string) == AsBytesFrom(string, 1)

\* hex: the value of one byte, -1 for a byte that is no hex digit
HexVal(c) ==
    IF \E i \in 1..16 : UpperHexDigits[i] = c
    THEN (CHOOSE i \in 1..16 : UpperHexDigits[i] = c) - 1
    ELSE IF \E i \in 1..16 : LowerHexDigits[i] = c
    THEN (CHOOSE i \in 1..16 : LowerHexDigits[i] = c) - 1
    ELSE -1

\* <[u8; n]>::from_hex: the length in bytes is checked first, then every
\* pair of bytes is decoded
FromHex(string, n) ==
    LET data == AsBytes(string)
    IN  IF Len(data) % 2 # 0 THEN Err("OddLength")
        ELSE IF Len(data) \div 2 # n THEN Err("InvalidStringLength")
        ELSE IF \E i \in 1..Len(data) : HexVal(data[i]) = -1
        THEN Err("InvalidHexCharacter")
        ELSE Ok([i \in 1..n |->
                    HexVal(data[2 * i - 1]) * 16 + HexVal(data[2 * i])])

\* TryFrom<&str> for Hash
HashTryFrom(string) ==
    LET bytes == FromHex(string, HASH_LENGTH)
    IN  IF bytes.tag = "Err" THEN Err(<<"FromStringError", bytes.val>>)
        ELSE Ok(bytes.val)

\* the inputs: hashes whose bytes step through the byte range, and strings
\* that are the hex of such a hash, damaged in one way
NumSteps == 3

ByteSeeds == {0, 9, 10, 15, 16, 171, 255}

ByteSteps == {17 * k : k \in 0..NumSteps}

HashInputs ==
    {[i \in 1..HASH_LENGTH |-> (b + (i - 1) * s) % 256] :
        b \in ByteSeeds, s \in ByteSteps}

ToLower(c) ==
    IF \E i \in 1..16 : UpperHexDigits[i] = c
    THEN LowerHexDigits[CHOOSE i \in 1..16 : UpperHexDigits[i] = c]
    ELSE c

Damages ==
    {"none", "lower", "mixed", "drop1", "drop2", "add1", "add2", "empty",
     "letter_g", "space", "slash", "prefix_0x",
     "wide_first", "wide_for_two", "wide_all", "wide3_first",
     "wide3_for_three", "wide4_for_four"}

Damage(s, how) ==
    CASE how = "none" -> s
      [] how = "lower" -> [i \in 1..Len(s) |-> ToLower(s[i])]
      [] how = "mixed" ->
           [i \in 1..Len(s) |-> IF i % 2 = 1 THEN ToLower(s[i]) ELSE s[i]]
      [] how = "drop1" -> SubSeq(s, 1, Len(s) - 1)
      [] how = "drop2" -> SubSeq(s, 1, Len(s) - 2)
      [] how = "add1" -> Append(s, Code("0"))
      [] how = "add2" -> s \o Str(<<"0", "0">>)
      [] how = "empty" -> <<>>
      [] how = "letter_g" -> [s EXCEPT ![Len(s)] = Code("G")]
      [] how = "space" -> [s EXCEPT ![1] = Code(" ")]
      [] how = "slash" -> [s EXCEPT ![2] = Code("/")]
      [] how = "prefix_0x" -> Str(<<"0", "x">>) \o SubSeq(s, 3, Len(s))
      [] how = "wide_first" -> [s EXCEPT ![1] = 233]
      [] how = "wide_for_two" -> <<223>> \o SubSeq(s, 3, Len(s))
      [] how = "wide_all" -> [i \in 1..(Len(s) \div 2) |-> 252]
      [] how = "wide3_first" -> [s EXCEPT ![1] = 8364]
      [] how = "wide3_for_three" -> <<8364>> \o SubSeq(s, 4, Len(s))
      [] how = "wide4_for_four" -> <<128512>> \o SubSeq(s, 5, Len(s))

InitHash ==
    /\ overflow_checks = TRUE
    /\ fn_in \in [kind : {"hash"}, hash : HashInputs, damage : Damages]
    /\ fn_out = NoCall
    /\ IdleEpoched /\ IdleDeltas /\ IdleVset

\* hash.to_string()
CallHashFmt ==
    /\ fn_in.kind = "hash"
    /\ fn_out' = [op |-> "hash_fmt", ret |-> HashFmt(fn_in.hash)]
    /\ UNCHANGED <<overflow_checks, fn_in, epochedVars, deltaVars, vsetVars>>

\* Hash::try_from(hash.to_string().as_str())
CallHashRoundTrip ==
    /\ fn_in.kind = "hash"
    /\ fn_out' = [op |-> "hash_round_trip",
                  ret |-> HashTryFrom(HashFmt(fn_in.hash))]
    /\ UNCHANGED <<overflow_checks, fn_in, epochedVars, deltaVars, vsetVars>>

\* Hash::try_from(string) on a string that may be no hash at all
CallHashTryFrom ==
    /\ fn_in.kind = "hash"
    /\ LET string == Damage(HashFmt(fn_in.hash), fn_in.damage)
       IN  fn_out' = [op |-> "hash_try_from", arg |-> string,
                      ret |-> HashTryFrom(string)]
    /\ UNCHANGED <<overflow_checks, fn_in, epochedVars, deltaVars, vsetVars>>

NextHash == CallHashFmt \/ CallHashRoundTrip \/ CallHashTryFrom

SpecHash == InitHash /\ [][NextHash]_vars

\* is the string made of exactly 64 hex characters, of either case
IsHex64(string) ==
    /\ Len(string) = 64
    /\ \A i \in 1..Len(string) :
          string[i] \in
             {Code(c) : c \in {"0", "1", "2", "3", "4", "5", "6", "7", "8",
                               "9", "a", "b", "c", "d", "e", "f",
                               "A", "B", "C", "D", "E", "F"}}

(* C11: formatting a 32-byte hash gives 64 uppercase hex characters, and   *)
(* parsing that string gives the hash back; parsing a string succeeds      *)
(* exactly when it is 64 hex characters of either case, and is an error    *)
(* value otherwise.                                                        *)
C11_HashRoundTrip ==
    /\ fn_out.op = "hash_fmt" =>
          /\ Len(fn_out.ret) = 64
          /\ \A i \in 1..Len(fn_out.ret) :
                fn_out.ret[i] \in
                   {Code(c) : c \in {"0", "1", "2", "3", "4", "5", "6", "7",
                                     "8", "9", "A", "B", "C", "D", "E", "F"}}
    /\ fn_out.op = "hash_round_trip" => fn_out.ret = Ok(fn_in.hash)
    /\ fn_out.op = "hash_try_from" =>
          /\ fn_out.ret.tag \in {"Ok", "Err"}
          /\ (fn_out.ret.tag = "Ok") <=> IsHex64(fn_out.arg)
          /\ fn_in.damage \in {"none", "lower", "mixed"} =>
                fn_out.ret = Ok(fn_in.hash)

\* The kind of the error follows the length in bytes: a string of 64
\* characters and 65 bytes is of odd length, one of 64 characters and 66
\* bytes is too long, and one of fewer characters and 64 bytes holds a byte
\* that is no hex digit.
HashErrorKinds ==
    fn_out.op = "hash_try_from" =>
        /\ fn_in.damage \in {"drop1", "add1", "wide_first"} =>
              fn_out.ret = Err(<<"FromStringError", "OddLength">>)
        /\ fn_in.damage \in {"drop2", "add2", "empty", "wide3_first"} =>
              fn_out.ret = Err(<<"FromStringError", "InvalidStringLength">>)
        /\ fn_in.damage \in {"letter_g", "space", "slash", "prefix_0x",
                              "wide_for_two", "wide_all",
                              "wide3_for_three", "wide4_for_four"} =>
              fn_out.ret = Err(<<"FromStringError", "InvalidHexCharacter">>)

\* a hash with bytes below 16 and bytes with letter digits went through
\* the round trip
C11_Witness ==
    /\ fn_out.op = "hash_round_trip"
    /\ \E i \in 1..HASH_LENGTH : fn_in.hash[i] < 16
    /\ \E i \in 1..HASH_LENGTH : fn_in.hash[i] >= 171
    /\ fn_out.ret.tag = "Ok"

---------------------------------------------------------------------------
(* RPC query paths (apps/src/lib/node/ledger/rpc.rs): formatting a Path    *)
(* and parsing it back.  storage::Key, Address and AssetType live outside  *)
(* the file; they are modelled by their string forms: a key is its         *)
(* segments joined by '/', an address segment is '#' and the encoded       *)
(* address, an asset type is the lower-case hex of its identifier.         *)

DRY_RUN_TX_PATH == Str(<<"d", "r", "y", "_", "r", "u", "n", "_", "t", "x">>)

EPOCH_PATH == Str(<<"e", "p", "o", "c", "h">>)

RESULTS_PATH == Str(<<"r", "e", "s", "u", "l", "t", "s">>)

VALUE_PREFIX == Str(<<"v", "a", "l", "u", "e">>)

PREFIX_PREFIX == Str(<<"p", "r", "e", "f", "i", "x">>)

HAS_KEY_PREFIX == Str(<<"h", "a", "s", "_", "k", "e", "y">>)

CONVERSION_KEY_PREFIX == Str(<<"c", "o", "n", "v">>)

KEY_SEGMENT_SEPARATOR == Code("/")

RESERVED_ADDRESS_PREFIX == Code("#")

ASSET_IDENTIFIER_LENGTH == 32

\* the position of the first c in s, 0 when there is none
FirstIndex(s, c) ==
    IF \E i \in 1..Len(s) : s[i] = c
    THEN CHOOSE i \in 1..Len(s) :
            s[i] = c /\ \A j \in 1..(i - 1) : s[j] # c
    ELSE 0

\* str::rsplit_once: the split at the last delimiter
rsplit_once(s, c) ==
    LET i == IF \E k \in 1..Len(s) : s[k] = c
             THEN CHOOSE k \in 1..Len(s) :
                     s[k] = c /\ \A j \in (k + 1)..Len(s) : s[j] # c
             ELSE 0
    IN  IF i = 0 THEN None
        ELSE Some(<<SubSeq(s, 1, i - 1), SubSeq(s, i + 1, Len(s))>>)

\* str::split_once: the split at the first delimiter
split_once(s, c) ==
    LET i == FirstIndex(s, c)
    IN  IF i = 0 THEN None
        ELSE Some(<<SubSeq(s, 1, i - 1), SubSeq(s, i + 1, Len(s))>>)

RECURSIVE StrSplit(_, _)
\* str::split: every piece between two delimiters
StrSplit(s, c) ==
    LET i == FirstIndex(s, c)
    IN  IF i = 0 THEN <<s>>
        ELSE <<SubSeq(s, 1, i - 1)>> \o StrSplit(SubSeq(s, i + 1, Len(s)), c)

RECURSIVE StrJoin(_, _, _)
\* [String]::join, from the i-th piece on
StrJoin(pieces, c, i) ==
    IF i > Len(pieces) THEN <<>>
    ELSE IF i = Len(pieces) THEN pieces[i]
    ELSE pieces[i] \o <<c>> \o StrJoin(pieces, c, i + 1)

\* the addresses of the model
RpcAddresses == {<<1>>, <<2>>}

\* Address::encode
AddressEncode(address) ==
    IF address = <<1>>
    THEN Str(<<"a", "t", "e", "s", "t", "1", "q">>)
    ELSE Str(<<"a", "t", "e", "s", "t", "1", "v">>)

\* Address::decode
AddressDecode(string) ==
    IF \E a \in RpcAddresses : AddressEncode(a) = string
    THEN Ok(CHOOSE a \in RpcAddresses : AddressEncode(a) = string)
    ELSE Err(<<"DecodeError">> \o string)

StringSeg(string) == [seg |-> "StringSeg", val |-> string]

AddressSeg(address) == [seg |-> "AddressSeg", val |-> address]

\* DbKeySeg::raw
DbKeySegRaw(seg) ==
    IF seg.seg = "AddressSeg"
    THEN <<RESERVED_ADDRESS_PREFIX>> \o AddressEncode(seg.val)
    ELSE seg.val

\* DbKeySeg::parse
DbKeySegParse(string) ==
    IF FirstIndex(string, KEY_SEGMENT_SEPARATOR) # 0
    THEN Err(<<"InvalidKeySeg">> \o string)
    ELSE IF Len(string) > 0 /\ string[1] = RESERVED_ADDRESS_PREFIX
    THEN LET address == AddressDecode(Tail(string))
         IN  IF address.tag = "Err" THEN Err(<<"ParseAddress">> \o string)
             ELSE Ok(AddressSeg(address.val))
    ELSE Ok(StringSeg(string))

\* Display for storage::Key
KeyFmt(key) ==
    StrJoin([i \in 1..Len(key) |-> DbKeySegRaw(key[i])],
            KEY_SEGMENT_SEPARATOR, 1)

\* storage::Key::parse
KeyParse(string) ==
    IF string = <<>> THEN Err(<<"ParseKeySeg">> \o string)
    ELSE LET pieces == StrSplit(string, KEY_SEGMENT_SEPARATOR)
             segs == [i \in 1..Len(pieces) |-> DbKeySegParse(pieces[i])]
         IN  IF \E i \in 1..Len(segs) : segs[i].tag = "Err"
             THEN segs[CHOOSE i \in 1..Len(segs) :
                          /\ segs[i].tag = "Err"
                          /\ \A j \in 1..(i - 1) : segs[j].tag = "Ok"]
             ELSE Ok([i \in 1..Len(segs) |-> segs[i].val])

\* lower-case hex of one byte
FmtByteLower(byte) ==
    <<LowerHexDigits[(byte \div 16) + 1], LowerHexDigits[(byte % 16) + 1]>>

RECURSIVE AssetTypeFmtFrom(_, _)
AssetTypeFmtFrom(bytes, i) ==
    IF i > Len(bytes) THEN <<>>
    ELSE FmtByteLower(bytes[i]) \o AssetTypeFmtFrom(bytes, i + 1)

\* Display for AssetType: the hex of the identifier
AssetTypeFmt(asset_type) == AssetTypeFmtFrom(asset_type, 1)

\* the identifiers of the asset types of the model
AssetIdentifiers ==
    {[i \in 1..ASSET_IDENTIFIER_LENGTH |-> (b + 7 * i) % 256] : b \in {0, 200}}

\* hex::decode: the length in bytes is checked first, then every pair of
\* bytes is decoded
HexDecode(string) ==
    LET data == AsBytes(string)
    IN  IF Len(data) % 2 # 0 THEN Err("OddLength")
        ELSE IF \E i \in 1..Len(data) : HexVal(data[i]) = -1
        THEN Err("InvalidHexCharacter")
        ELSE Ok([i \in 1..(Len(data) \div 2) |->
                    HexVal(data[2 * i - 1]) * 16 + HexVal(data[2 * i])])

\* AssetType::from_str: the hex decoded, an identifier of the right length,
\* and an asset type of that identifier
AssetTypeFromStr(string) ==
    LET bytes == HexDecode(string)
    IN  IF bytes.tag = "Err" THEN Err(<<"InvalidData", bytes.val>>)
        ELSE IF Len(bytes.val) # ASSET_IDENTIFIER_LENGTH
        THEN Err(<<"InvalidData", "length">>)
        ELSE IF bytes.val \notin AssetIdentifiers
        THEN Err(<<"InvalidData", "identifier">>)
        ELSE Ok(bytes.val)

BarePath(name) == [path |-> name, arg |-> <<>>]

PathOf(name, arg) == [path |-> name, arg |-> arg]

\* Display for Path
PathFmt(path) ==
    CASE path.path = "DryRunTx" -> DRY_RUN_TX_PATH
      [] path.path = "Epoch" -> EPOCH_PATH
      [] path.path = "Results" -> RESULTS_PATH
      [] path.path = "Value" -> VALUE_PREFIX \o Str(<<"/">>) \o KeyFmt(path.arg)
      [] path.path = "Prefix" -> PREFIX_PREFIX \o Str(<<"/">>) \o KeyFmt(path.arg)
      [] path.path = "HasKey" -> HAS_KEY_PREFIX \o Str(<<"/">>) \o KeyFmt(path.arg)
      [] path.path = "Conversion" ->
           CONVERSION_KEY_PREFIX \o Str(<<"/">>) \o AssetTypeFmt(path.arg)

\* the arms of FromStr for Path that parse a storage key
PathWithKey(name, storage_key) ==
    LET key == KeyParse(storage_key)
    IN  IF key.tag = "Err" THEN Err(<<"InvalidStorageKey">> \o key.val)
        ELSE Ok(PathOf(name, key.val))

\* FromStr for Path
PathFromStr(s) ==
    IF s = DRY_RUN_TX_PATH THEN Ok(BarePath("DryRunTx"))
    ELSE IF s = EPOCH_PATH THEN Ok(BarePath("Epoch"))
    ELSE IF s = RESULTS_PATH THEN Ok(BarePath("Results"))
    ELSE LET split == split_once(s, Code("/"))
         IN  IF split.tag = "None" THEN Err(<<"InvalidPath">> \o s)
             ELSE IF split.val[1] = VALUE_PREFIX
             THEN PathWithKey("Value", split.val[2])
             ELSE IF split.val[1] = PREFIX_PREFIX
             THEN PathWithKey("Prefix", split.val[2])
             ELSE IF split.val[1] = HAS_KEY_PREFIX
             THEN PathWithKey("HasKey", split.val[2])
             ELSE IF split.val[1] = CONVERSION_KEY_PREFIX
             THEN LET key == AssetTypeFromStr(split.val[2])
                  IN  IF key.tag = "Err"
                      THEN Err(<<"InvalidAssetType">> \o key.val)
                      ELSE Ok(PathOf("Conversion", key.val))
             ELSE Err(<<"InvalidPath">> \o s)

\* the inputs: storage keys of up to MaxSegments segments, every path over
\* them, and strings that are no path
MaxSegments == 2

SegInputs ==
    {StringSeg(Str(<<"a">>)), StringSeg(<<>>), StringSeg(EPOCH_PATH),
     StringSeg(VALUE_PREFIX)}
        \cup {AddressSeg(a) : a \in RpcAddresses}

\* the keys Key::parse can yield: at least one segment, and a text that is
\* not the empty string
KeyInputs ==
    (UNION {[1..n -> SegInputs] : n \in 1..MaxSegments})
        \ {<<StringSeg(<<>>)>>}

PathInputs ==
    {BarePath("DryRunTx"), BarePath("Epoch"), BarePath("Results")}
        \cup {PathOf(name, key) :
                 name \in {"Value", "Prefix", "HasKey"}, key \in KeyInputs}
        \cup {PathOf("Conversion", id) : id \in AssetIdentifiers}

StringInputs ==
    {<<>>,
     Str(<<"/">>),
     Str(<<"E", "p", "o", "c", "h">>),
     EPOCH_PATH \o Str(<<"/">>),
     EPOCH_PATH \o Str(<<"/", "a">>),
     Str(<<"/">>) \o EPOCH_PATH,
     VALUE_PREFIX,
     VALUE_PREFIX \o Str(<<"s", "/", "a">>),
     Str(<<"/">>) \o VALUE_PREFIX \o Str(<<"/", "a">>),
     Str(<<"a", "/">>) \o VALUE_PREFIX \o Str(<<"/", "a">>),
     Str(<<"k", "e", "y", "/", "a">>),
     CONVERSION_KEY_PREFIX,
     VALUE_PREFIX \o Str(<<"/", "a">>),
     VALUE_PREFIX \o Str(<<"/", "#", "z">>),
     HAS_KEY_PREFIX \o Str(<<"/", "a", "/", "#", "z">>),
     CONVERSION_KEY_PREFIX \o Str(<<"/", "z", "z">>),
     CONVERSION_KEY_PREFIX \o Str(<<"/", "0", "0">>),
     CONVERSION_KEY_PREFIX \o Str(<<"/">>) \o <<163>>,
     CONVERSION_KEY_PREFIX \o Str(<<"/">>) \o <<163, 48>>,
     <<8364>> \o Str(<<"/", "a">>)}

InitPath ==
    /\ overflow_checks = TRUE
    /\ fn_in \in [kind : {"path"}, path : PathInputs, string : StringInputs]
    /\ fn_out = NoCall
    /\ IdleEpoched /\ IdleDeltas /\ IdleVset

\* path.to_string()
CallPathFmt ==
    /\ fn_in.kind = "path"
    /\ fn_out' = [op |-> "path_fmt", ret |-> PathFmt(fn_in.path)]
    /\ UNCHANGED <<overflow_checks, fn_in, epochedVars, deltaVars, vsetVars>>

\* Path::from_str(&path.to_string()), and the result formatted again
CallPathRoundTrip ==
    /\ fn_in.kind = "path"
    /\ LET parsed == PathFromStr(PathFmt(fn_in.path))
       IN  fn_out' = [op |-> "path_round_trip",
                      ret |-> parsed,
                      again |-> IF parsed.tag = "Ok" THEN PathFmt(parsed.val)
                                ELSE <<>>]
    /\ UNCHANGED <<overflow_checks, fn_in, epochedVars, deltaVars, vsetVars>>

\* Path::from_str(string) on a string that may be no path
CallPathFromStr ==
    /\ fn_in.kind = "path"
    /\ fn_out' = [op |-> "path_from_str", ret |-> PathFromStr(fn_in.string)]
    /\ UNCHANGED <<overflow_checks, fn_in, epochedVars, deltaVars, vsetVars>>

NextPath == CallPathFmt \/ CallPathRoundTrip \/ CallPathFromStr

SpecPath == InitPath /\ [][NextPath]_vars

\* does s start with the prefix and a '/'
StartsWith(s, prefix) ==
    /\ Len(s) > Len(prefix)
    /\ SubSeq(s, 1, Len(prefix) + 1) = prefix \o Str(<<"/">>)

\* a string that has none of the forms of a path
Unrecognized(s) ==
    /\ s \notin {DRY_RUN_TX_PATH, EPOCH_PATH, RESULTS_PATH}
    /\ \A prefix \in {VALUE_PREFIX, PREFIX_PREFIX, HAS_KEY_PREFIX,
                      CONVERSION_KEY_PREFIX} : ~StartsWith(s, prefix)

(* C12: for every query path, parsing its formatted string and formatting  *)
(* the result yields the identical string; parsing an unrecognized string  *)
(* yields the unrecognized-path condition, never a panic.                  *)
C12_PathRoundTrip ==
    /\ fn_out.op = "path_round_trip" =>
          /\ fn_out.ret.tag = "Ok"
          /\ fn_out.again = PathFmt(fn_in.path)
    /\ fn_out.op = "path_from_str" =>
          /\ fn_out.ret.tag \in {"Ok", "Err"}
          /\ Unrecognized(fn_in.string) =>
                fn_out.ret = Err(<<"InvalidPath">> \o fn_in.string)

\* a path over a key of two segments, an address among them, went through
\* the round trip
C12_Witness ==
    /\ fn_out.op = "path_round_trip"
    /\ fn_in.path.path = "HasKey"
    /\ Len(fn_in.path.arg) = 2
    /\ fn_in.path.arg[2].seg = "AddressSeg"
    /\ fn_out.ret = Ok(fn_in.path)
    /\ fn_out.again = PathFmt(fn_in.path)

---------------------------------------------------------------------------
(* The whole model: one of the components above, chosen at the start.      *)

Init ==
    \/ InitEpoch \/ InitBond \/ InitOrd \/ InitDec
    \/ InitEpoched \/ InitDeltas \/ InitVset
    \/ InitHash \/ InitPath

Next ==
    \/ NextEpoch \/ NextBond \/ NextOrd \/ NextDec
    \/ NextEpoched \/ NextDeltas \/ NextVset
    \/ NextHash \/ NextPath

Spec == Init /\ [][Next]_vars

=============================================================================
